---- MODULE Spec2Model ----
(***************************************************************************)
(* Model of the Item Entry Form, AddItemForm.tsx.                          *)
(*                                                                         *)
(* A string is a sequence of one-character strings, so that trim,          *)
(* toLowerCase, includes and parseInt are computed character by character. *)
(* A JavaScript number is a record [nan, val]: parseInt yields NaN on a    *)
(* text with no leading digits, and every comparison with NaN is false.    *)
(*                                                                         *)
(* Each handler of the component is one action.  Two variables record what *)
(* the last handler run emitted (toasts, callbacks, the console) and what  *)
(* it gave to the creation service, so that claims about effects are       *)
(* checkable.                                                              *)
(***************************************************************************)
EXTENDS Integers, Sequences, FiniteSets, TLC

VARIABLES
    name,               \* useState("")            line 18
    quantity,           \* useState("")            line 19
    lowThreshold,       \* useState("")            line 20
    errors,             \* useState({name, quantity, threshold})  line 21
    touched,            \* useState({name, quantity, threshold})  line 22
    suggestions,        \* useState<string[]>([])  line 23
    showSuggestions,    \* useState(false)         line 24
    isLoading,          \* useState(false)         line 25
    selectedHousehold,  \* useHousehold()          line 26: <<>> absent, <<key>> selected
    pending,            \* createInventoryItem calls awaited and not yet settled
    hideTimers,         \* setTimeout callbacks of line 103 not yet run
    out,                \* what the last handler run emitted, in order
    sent                \* the payloads the last handler run gave to createInventoryItem

vars == <<name, quantity, lowThreshold, errors, touched, suggestions,
          showSuggestions, isLoading, selectedHousehold, pending, hideTimers,
          out, sent>>

formState == <<name, quantity, lowThreshold, errors, touched, suggestions,
               showSuggestions, isLoading>>

-----------------------------------------------------------------------------
(* Bounds *)

\* Calls to the creation service that may be outstanding at once.
MaxPending == 2
\* Delayed hides that may be scheduled at once.
MaxTimers == 1

-----------------------------------------------------------------------------
(* Strings *)

UpperAlpha == <<"A","B","C","D","E","F","G","H","I","J","K","L","M",
                "N","O","P","Q","R","S","T","U","V","W","X","Y","Z">>
LowerAlpha == <<"a","b","c","d","e","f","g","h","i","j","k","l","m",
                "n","o","p","q","r","s","t","u","v","w","x","y","z">>
DigitChars == <<"0","1","2","3","4","5","6","7","8","9">>
WhiteSpace == {" "}

IsDigit(c) == \E k \in 1..10 : DigitChars[k] = c
DigitVal(c) == (CHOOSE k \in 1..10 : DigitChars[k] = c) - 1

\* String.prototype.toLowerCase, one character
LowerChar(c) ==
    IF \E k \in 1..26 : UpperAlpha[k] = c
    THEN LowerAlpha[CHOOSE k \in 1..26 : UpperAlpha[k] = c]
    ELSE c

\* Variant of toLowerCase: the text is compared as typed.
toLowerCaseAsTyped(s) == s

toLowerCase(s) == [i \in 1..Len(s) |-> LowerChar(s[i])]

\* String.prototype.includes
includes(s, sub) ==
    \E i \in 0..(Len(s) - Len(sub)) : SubSeq(s, i + 1, i + Len(sub)) = sub

RECURSIVE TrimStart(_)
TrimStart(s) ==
    IF s # <<>> /\ Head(s) \in WhiteSpace THEN TrimStart(Tail(s)) ELSE s

RECURSIVE TrimEnd(_)
TrimEnd(s) ==
    IF s # <<>> /\ s[Len(s)] \in WhiteSpace
    THEN TrimEnd(SubSeq(s, 1, Len(s) - 1))
    ELSE s

\* String.prototype.trim
trim(s) == TrimEnd(TrimStart(s))

-----------------------------------------------------------------------------
(* Numbers *)

NaN == [nan |-> TRUE, val |-> 0]
Num(n) == [nan |-> FALSE, val |-> n]

\* x < y, x <= y, x > y, x >= y of JavaScript: false when either side is NaN
Lt(x, n) == ~x.nan /\ x.val < n
Le(x, n) == ~x.nan /\ x.val <= n
Gt(x, n) == ~x.nan /\ x.val > n
Ge(x, n) == ~x.nan /\ x.val >= n

RECURSIVE DigitPrefix(_)
DigitPrefix(s) ==
    IF s # <<>> /\ IsDigit(Head(s))
    THEN <<Head(s)>> \o DigitPrefix(Tail(s))
    ELSE <<>>

RECURSIVE DecimalValue(_)
DecimalValue(d) ==
    IF d = <<>> THEN 0
    ELSE 10 * DecimalValue(SubSeq(d, 1, Len(d) - 1)) + DigitVal(d[Len(d)])

\* parseInt(text), radix absent: leading white space is skipped, one sign is
\* read, then the longest run of decimal digits; the rest of the text is
\* ignored; with no digit the result is NaN.
parseInt(s) ==
    LET t == TrimStart(s)
        signed == t # <<>> /\ Head(t) \in {"-", "+"}
        body == IF signed THEN Tail(t) ELSE t
        digits == DigitPrefix(body)
    IN  IF digits = <<>> THEN NaN
        ELSE IF signed /\ Head(t) = "-" THEN Num(0 - DecimalValue(digits))
        ELSE Num(DecimalValue(digits))

-----------------------------------------------------------------------------
(* Program constants *)

COMMON_ITEMS ==
    << <<"M","i","l","k">>,
       <<"B","r","e","a","d">>,
       <<"E","g","g","s">>,
       <<"R","i","c","e">>,
       <<"P","a","s","t","a">>,
       <<"C","h","i","c","k","e","n">>,
       <<"T","o","m","a","t","o","e","s">>,
       <<"O","n","i","o","n","s">>,
       <<"P","o","t","a","t","o","e","s">>,
       <<"C","h","e","e","s","e">> >>

NameRequired == "Item name is required."
\* The source writes U+2265 where this text has ">=": a TLA+ string is ASCII.
QuantityMessage == "Quantity must be >= 0."
ThresholdMessage == "Threshold must be > 0."
SelectHouseholdFirst == "Please select a household first"
ItemAdded == "Item added successfully"
FailedToAdd == "Failed to add item"

\* What a handler emits
ToastError(msg) == <<"toast.error", msg>>
ToastSuccess(msg) == <<"toast.success", msg>>
ConsoleError == <<"console.error", "APP:: AddItemForm:: Failed to add item:">>
OnSuccess == <<"callback", "onSuccess">>
OnCancel == <<"callback", "onCancel">>
\* line 63
PreventDefault == <<"event", "preventDefault">>

-----------------------------------------------------------------------------
(* Inputs *)

\* Texts typed into the name field: empty, white space only, a prefix of
\* "Milk", a letter of no common item.
NameInputs == { <<>>, <<" ">>, <<"M","i">>, <<"z">> }

\* Texts a type="number" field reports: empty, or the text of a number.
\* For the quantity: zero, a negative integer, a fraction whose leading
\* digits parseInt reads (1.5), and a fraction with no leading digit (.5).
QuantityInputs == { <<>>, <<"0">>, <<"-","1">>, <<"1",".","5">>, <<".","5">> }
\* For the threshold: zero, a positive integer, a fraction with no leading digit.
ThresholdInputs == { <<>>, <<"0">>, <<"2">>, <<".","5">> }

\* Texts for the claims about suggestions: also a letter of several items,
\* a text in the other case than the items', and a two-letter infix.
NameTexts == NameInputs \cup { <<"i">>, <<"m","I">>, <<"t","o">> }

HouseholdKeys == {"H1", "H2"}
Households == {<<>>} \cup { <<k>> : k \in HouseholdKeys }

Keys == {"Escape", "Enter"}

-----------------------------------------------------------------------------
(* Rendering: what the component shows, lines 91-157 *)

AllTouched == [name |-> TRUE, quantity |-> TRUE, threshold |-> TRUE]
NoErrors == [name |-> "", quantity |-> "", threshold |-> ""]

\* line 91: the value is truthy iff every conjunct is
isValid ==
    /\ trim(name) # <<>>
    /\ quantity # <<>>
    /\ Ge(parseInt(quantity), 0)
    /\ lowThreshold # <<>>
    /\ Gt(parseInt(lowThreshold), 0)

\* Variant of submitDisabled: the button ignores the loading flag.
submitDisabledIgnoringLoading == ~isValid

\* line 151: disabled={!isValid || isLoading}
submitDisabled == ~isValid \/ isLoading

\* Variant of displayedError: the name message is rendered from the current
\* text, whether the field was touched or not.
displayedErrorLive(f) ==
    IF f = "name"
    THEN (IF trim(name) = <<>> THEN NameRequired ELSE "")
    ELSE errors[f]

\* lines 115, 129, 147: {errors.f && touched.f && <p>{errors.f}</p>}
displayedError(f) == IF errors[f] # "" /\ touched[f] THEN errors[f] ELSE ""

\* line 107: the panel is rendered
panelShown == showSuggestions /\ Len(suggestions) > 0

\* lines 53 and 104: COMMON_ITEMS.filter(item => item.toLowerCase().includes(v.toLowerCase()))
LowerItems == [i \in 1..Len(COMMON_ITEMS) |-> toLowerCase(COMMON_ITEMS[i])]
RECURSIVE keep(_, _)
keep(i, lv) ==
    IF i > Len(COMMON_ITEMS) THEN <<>>
    ELSE (IF includes(LowerItems[i], lv) THEN <<COMMON_ITEMS[i]>> ELSE <<>>)
         \o keep(i + 1, lv)
filtered(v) == keep(1, toLowerCase(v))

-----------------------------------------------------------------------------
(* validate, lines 41-48 *)

\* Variant of nameError: the name is not trimmed.
nameErrorUntrimmed(n) == IF n = <<>> THEN NameRequired ELSE ""

nameError(n) == IF trim(n) = <<>> THEN NameRequired ELSE ""
quantityError(q) == IF q = <<>> \/ Lt(parseInt(q), 0) THEN QuantityMessage ELSE ""
thresholdError(t) == IF t = <<>> \/ Le(parseInt(t), 0) THEN ThresholdMessage ELSE ""

newErrors ==
    [name |-> nameError(name),
     quantity |-> quantityError(quantity),
     threshold |-> thresholdError(lowThreshold)]

\* line 47: the value validate returns
validate == newErrors.name = "" /\ newErrors.quantity = "" /\ newErrors.threshold = ""

\* Variant of thresholdChangeError: the quantity's test (>= 0) is used.
thresholdChangeErrorAllowingZero(v) ==
    IF v # <<>> /\ Ge(parseInt(v), 0) THEN "" ELSE ThresholdMessage

\* lines 124 and 141: the error a keystroke in a touched field sets
quantityChangeError(v) == IF v # <<>> /\ Ge(parseInt(v), 0) THEN "" ELSE QuantityMessage
thresholdChangeError(v) == IF v # <<>> /\ Gt(parseInt(v), 0) THEN "" ELSE ThresholdMessage

-----------------------------------------------------------------------------
(* The state after construction, lines 18-26 *)

Init ==
    /\ name = <<>>
    /\ quantity = <<>>
    /\ lowThreshold = <<>>
    /\ errors = NoErrors
    /\ touched = [name |-> FALSE, quantity |-> FALSE, threshold |-> FALSE]
    /\ suggestions = <<>>
    /\ showSuggestions = FALSE
    /\ isLoading = FALSE
    /\ selectedHousehold \in Households
    /\ pending = 0
    /\ hideTimers = 0
    /\ out = <<>>
    /\ sent = <<>>

\* A handler that emits nothing and calls no service
Silent ==
    /\ out' = <<>>
    /\ sent' = <<>>

-----------------------------------------------------------------------------
(* The name field, lines 50-60 and 101-113 *)

handleNameChange(value) ==
    /\ name' = value
    /\ IF Len(value) > 0
       THEN LET found == filtered(value)
            IN  /\ suggestions' = found
                /\ showSuggestions' = (Len(found) > 0)
       ELSE /\ suggestions' = suggestions
            /\ showSuggestions' = FALSE
    /\ errors' = IF touched.name
                 THEN [errors EXCEPT !.name = nameError(value)]
                 ELSE errors
    /\ Silent
    /\ UNCHANGED <<quantity, lowThreshold, touched, isLoading, selectedHousehold,
                   pending, hideTimers>>

\* Variant of nameBlur: the panel is hidden in the blur itself, no timer.
nameBlurHidingAtOnce ==
    /\ touched' = [touched EXCEPT !.name = TRUE]
    /\ showSuggestions' = FALSE
    /\ Silent
    /\ UNCHANGED <<name, quantity, lowThreshold, errors, suggestions,
                   isLoading, selectedHousehold, pending, hideTimers>>

\* line 103: onBlur marks the field touched and schedules the delayed hide
nameBlur ==
    /\ hideTimers < MaxTimers
    /\ touched' = [touched EXCEPT !.name = TRUE]
    /\ hideTimers' = hideTimers + 1
    /\ Silent
    /\ UNCHANGED <<name, quantity, lowThreshold, errors, suggestions,
                   showSuggestions, isLoading, selectedHousehold, pending>>

\* line 103: the callback given to setTimeout runs
hideTimerFires ==
    /\ hideTimers > 0
    /\ hideTimers' = hideTimers - 1
    /\ showSuggestions' = FALSE
    /\ Silent
    /\ UNCHANGED <<name, quantity, lowThreshold, errors, touched, suggestions,
                   isLoading, selectedHousehold, pending>>

\* line 104: name && setSuggestions(...) && setShowSuggestions(true).
\* setSuggestions returns undefined, so the second && never reaches
\* setShowSuggestions.
nameFocus ==
    /\ suggestions' = IF name # <<>> THEN filtered(name) ELSE suggestions
    /\ Silent
    /\ UNCHANGED <<name, quantity, lowThreshold, errors, touched, showSuggestions,
                   isLoading, selectedHousehold, pending, hideTimers>>

\* line 110: a click on a rendered suggestion
suggestionClick(item) ==
    /\ panelShown
    /\ \E i \in 1..Len(suggestions) : suggestions[i] = item
    /\ name' = item
    /\ showSuggestions' = FALSE
    /\ Silent
    /\ UNCHANGED <<quantity, lowThreshold, errors, touched, suggestions, isLoading,
                   selectedHousehold, pending, hideTimers>>

-----------------------------------------------------------------------------
(* The quantity and threshold fields, lines 120-147 *)

quantityChange(v) ==
    /\ quantity' = v
    /\ errors' = IF touched.quantity
                 THEN [errors EXCEPT !.quantity = quantityChangeError(v)]
                 ELSE errors
    /\ Silent
    /\ UNCHANGED <<name, lowThreshold, touched, suggestions, showSuggestions,
                   isLoading, selectedHousehold, pending, hideTimers>>

quantityBlur ==
    /\ touched' = [touched EXCEPT !.quantity = TRUE]
    /\ Silent
    /\ UNCHANGED <<name, quantity, lowThreshold, errors, suggestions,
                   showSuggestions, isLoading, selectedHousehold, pending, hideTimers>>

thresholdChange(v) ==
    /\ lowThreshold' = v
    /\ errors' = IF touched.threshold
                 THEN [errors EXCEPT !.threshold = thresholdChangeError(v)]
                 ELSE errors
    /\ Silent
    /\ UNCHANGED <<name, quantity, touched, suggestions, showSuggestions,
                   isLoading, selectedHousehold, pending, hideTimers>>

thresholdBlur ==
    /\ touched' = [touched EXCEPT !.threshold = TRUE]
    /\ Silent
    /\ UNCHANGED <<name, quantity, lowThreshold, errors, suggestions,
                   showSuggestions, isLoading, selectedHousehold, pending, hideTimers>>

-----------------------------------------------------------------------------
(* Submit, lines 62-89 *)

\* Variant of payload: the threshold is parsed from the quantity text.
payloadThresholdFromQuantity ==
    [name |-> name,
     quantity |-> parseInt(quantity),
     lowThreshold |-> parseInt(quantity),
     householdId |-> selectedHousehold[1]]

\* lines 75-80: the argument of createInventoryItem
payload ==
    [name |-> name,
     quantity |-> parseInt(quantity),
     lowThreshold |-> parseInt(lowThreshold),
     householdId |-> selectedHousehold[1]]

\* lines 66-73: where the handler stops
submitOutcome ==
    IF ~validate THEN "rejected"
    ELSE IF selectedHousehold = <<>> THEN "noHousehold"
    ELSE "call"

\* Variant of noHouseholdEffects: the handler stops without a notification.
noHouseholdEffectsSilent == <<PreventDefault>>

\* lines 63 and 69: what the handler emits when no household is selected
noHouseholdEffects == <<PreventDefault, ToastError(SelectHouseholdFirst)>>

\* lines 62-80: the handler up to its await
handleSubmit ==
    /\ submitOutcome = "call" => pending < MaxPending
    /\ touched' = AllTouched
    /\ errors' = newErrors
    /\ CASE submitOutcome = "rejected" ->
              /\ out' = <<PreventDefault>>
              /\ sent' = <<>>
              /\ UNCHANGED <<isLoading, pending>>
         [] submitOutcome = "noHousehold" ->
              /\ out' = noHouseholdEffects
              /\ sent' = <<>>
              /\ UNCHANGED <<isLoading, pending>>
         [] submitOutcome = "call" ->
              /\ isLoading' = TRUE
              /\ sent' = <<payload>>
              /\ pending' = pending + 1
              /\ out' = <<PreventDefault>>
    /\ UNCHANGED <<name, quantity, lowThreshold, suggestions, showSuggestions,
                   selectedHousehold, hideTimers>>

\* Variant of rejectedEffects: the catch block also signals success.
rejectedEffectsWithSuccess == <<ConsoleError, ToastError(FailedToAdd), OnSuccess>>
\* Variant of rejectedEffects: the catch block logs and shows nothing.
rejectedEffectsWithoutToast == <<ConsoleError>>
\* Variant of loadingAfterSettle: the flag is not cleared.
loadingAfterSettleKept == isLoading

\* lines 81-82
resolvedEffects == <<ToastSuccess(ItemAdded), OnSuccess>>
\* lines 84-85
rejectedEffects == <<ConsoleError, ToastError(FailedToAdd)>>
\* line 87: finally { setIsLoading(false) }
loadingAfterSettle == FALSE

\* lines 81-82 and 86-88: an awaited call resolves
createResolved ==
    /\ pending > 0
    /\ pending' = pending - 1
    /\ out' = resolvedEffects
    /\ isLoading' = loadingAfterSettle
    /\ sent' = <<>>
    /\ UNCHANGED <<name, quantity, lowThreshold, errors, touched, suggestions,
                   showSuggestions, selectedHousehold, hideTimers>>

\* lines 83-88: an awaited call rejects
createRejected ==
    /\ pending > 0
    /\ pending' = pending - 1
    /\ out' = rejectedEffects
    /\ isLoading' = loadingAfterSettle
    /\ sent' = <<>>
    /\ UNCHANGED <<name, quantity, lowThreshold, errors, touched, suggestions,
                   showSuggestions, selectedHousehold, hideTimers>>

\* line 151: the submit button is pressed; a disabled button delivers no submit
submitClick ==
    /\ ~submitDisabled
    /\ handleSubmit

-----------------------------------------------------------------------------
(* Cancel, lines 33-39 and 154 *)

\* Variant of keyEffects: the listener tests for another key name.
keyEffectsWrongKey(key) == IF key = "Esc" THEN <<OnCancel>> ELSE <<>>

\* line 35
keyEffects(key) == IF key = "Escape" THEN <<OnCancel>> ELSE <<>>

handleKeyDown(key) ==
    /\ out' = keyEffects(key)
    /\ sent' = <<>>
    /\ UNCHANGED <<formState, selectedHousehold, pending, hideTimers>>

\* Variant of cancelClick: the cancel also abandons the awaited calls.
cancelClickAborting ==
    /\ out' = <<OnCancel>>
    /\ sent' = <<>>
    /\ pending' = 0
    /\ isLoading' = FALSE
    /\ UNCHANGED <<name, quantity, lowThreshold, errors, touched, suggestions,
                   showSuggestions, selectedHousehold, hideTimers>>

\* line 154: onClick={onCancel}
cancelClick ==
    /\ out' = <<OnCancel>>
    /\ sent' = <<>>
    /\ UNCHANGED <<formState, selectedHousehold, pending, hideTimers>>

-----------------------------------------------------------------------------
(* The household collaborator, line 26 *)

\* useHousehold gives another selection: the component renders again
householdChange(h) ==
    /\ h # selectedHousehold
    /\ selectedHousehold' = h
    /\ Silent
    /\ UNCHANGED <<formState, pending, hideTimers>>

-----------------------------------------------------------------------------
(* Specifications *)

CommonItems == { COMMON_ITEMS[i] : i \in 1..Len(COMMON_ITEMS) }

\* Every event but the form's submit
Events ==
    \/ \E v \in NameInputs : handleNameChange(v)
    \/ nameBlur
    \/ hideTimerFires
    \/ nameFocus
    \/ \E item \in CommonItems : suggestionClick(item)
    \/ \E v \in QuantityInputs : quantityChange(v)
    \/ quantityBlur
    \/ \E v \in ThresholdInputs : thresholdChange(v)
    \/ thresholdBlur
    \/ createResolved
    \/ createRejected
    \/ \E k \in Keys : handleKeyDown(k)
    \/ cancelClick
    \/ \E h \in Households : householdChange(h)

\* The handlers, each run whenever its event is dispatched: onSubmit runs on
\* every submit event of the form, whatever the button's state.
Next == Events \/ handleSubmit

Spec == Init /\ [][Next]_vars

\* The events the rendered controls deliver: a submit comes from the submit
\* button alone, which is disabled while the draft is invalid or a call is
\* awaited.
NextUI == Events \/ submitClick

SpecUI == Init /\ [][NextUI]_vars

\* The name field alone: its keystrokes, blur, delayed hide, focus and the
\* clicks on suggestions.
NextName ==
    \/ \E v \in NameTexts : handleNameChange(v)
    \/ nameBlur
    \/ hideTimerFires
    \/ nameFocus
    \/ \E item \in CommonItems : suggestionClick(item)

SpecName == Init /\ [][NextName]_vars

\* The name field when the user leaves it only while no panel is shown: a
\* panel that is shown while a delayed hide is scheduled was then opened
\* after the blur that scheduled it.
nameBlurWhileHidden ==
    /\ ~panelShown
    /\ nameBlur

NextBlurHidden ==
    \/ \E v \in NameTexts : handleNameChange(v)
    \/ nameBlurWhileHidden
    \/ hideTimerFires
    \/ nameFocus
    \/ \E item \in CommonItems : suggestionClick(item)

SpecBlurHidden == Init /\ [][NextBlurHidden]_vars

-----------------------------------------------------------------------------
(* Properties *)

Emitted(e) == \E i \in 1..Len(out) : out[i] = e
Count(e) == Cardinality({ i \in 1..Len(out) : out[i] = e })

\* The three field rules, in the words of the specification: the name is
\* empty after trimming; the quantity is empty or parses to a negative
\* integer; the threshold is empty or parses to a non-positive integer.
NameRuleFails == trim(name) = <<>>
QuantityRuleFails == quantity = <<>> \/ Lt(parseInt(quantity), 0)
ThresholdRuleFails == lowThreshold = <<>> \/ Le(parseInt(lowThreshold), 0)
DraftFailsRule == NameRuleFails \/ QuantityRuleFails \/ ThresholdRuleFails

\* An integer string: an optional minus sign, then digits and nothing else.
IsIntegerString(s) ==
    LET body == IF s # <<>> /\ Head(s) = "-" THEN Tail(s) ELSE s
    IN  body # <<>> /\ DigitPrefix(body) = body

\* C1 (SpecUI): at most one creation-service call is outstanding at any
\* time; while one is outstanding the submit button is disabled, so that
\* no second call can be started.
C1_AtMostOneCallOutstanding ==
    /\ pending <= 1
    /\ pending > 0 => submitDisabled

\* C1 witness: a call is outstanding while the draft itself is valid.
C1_Witness == pending = 1 /\ isLoading /\ isValid

\* C2, as claimed: with no submission in flight the submit button is enabled
\* iff the name is non-empty after trimming, the quantity is a non-negative
\* integer string and the threshold is a positive integer string.
C2_EnabledIffIntegerStrings ==
    (~isLoading /\ pending = 0) =>
        (~submitDisabled <=>
            /\ trim(name) # <<>>
            /\ IsIntegerString(quantity) /\ Ge(parseInt(quantity), 0)
            /\ IsIntegerString(lowThreshold) /\ Gt(parseInt(lowThreshold), 0))

\* C3 (SpecUI): every call made to the creation service carries the draft
\* name, the parsed quantity (an integer >= 0), the parsed threshold (an
\* integer > 0) and the key of the household selected at submit time.
C3_PayloadWellFormed ==
    sent # <<>> =>
        /\ Len(sent) = 1
        /\ sent[1].name = name
        /\ sent[1].quantity = parseInt(quantity)
        /\ ~sent[1].quantity.nan /\ sent[1].quantity.val >= 0
        /\ sent[1].lowThreshold = parseInt(lowThreshold)
        /\ ~sent[1].lowThreshold.nan /\ sent[1].lowThreshold.val > 0
        /\ selectedHousehold # <<>>
        /\ sent[1].householdId = selectedHousehold[1]

\* C3 witness: a call was made for the second household with a quantity
\* text that is not its own parse.
C3_Witness ==
    /\ sent # <<>>
    /\ sent[1].householdId = "H2"
    /\ quantity = <<"1", ".", "5">>
    /\ sent[1].quantity = Num(1)

\* C4: onSuccess is invoked exactly once, after the success notification, by
\* every step in which a creation-service call resolves, and by no other
\* step (a submit stopped by validation or by the missing household, a
\* rejected call, any other event).
C4_OnSuccessOncePerResolvedCall ==
    [][/\ createResolved =>
            /\ out' = <<ToastSuccess(ItemAdded), OnSuccess>>
            /\ pending' = pending - 1
       /\ ~createResolved => ~Emitted(OnSuccess)']_vars

\* C4 witness: a call has resolved and onSuccess was invoked once.
C4_Witness ==
    /\ Count(OnSuccess) = 1
    /\ Emitted(ToastSuccess(ItemAdded))
    /\ pending = 0

\* C5: a step in which the creation-service call rejects logs the error and
\* shows "Failed to add item", invokes no callback, makes no further call,
\* leaves the draft unchanged and clears the loading flag, so that the
\* submit button is enabled again whenever the draft is valid.
C5_RejectionKeepsDraft ==
    [][createRejected =>
        /\ out' = <<ConsoleError, ToastError(FailedToAdd)>>
        /\ sent' = <<>>
        /\ pending' = pending - 1
        /\ UNCHANGED <<name, quantity, lowThreshold>>
        /\ (~submitDisabled)' = isValid]_vars

\* C5 witness: a call has rejected, the draft is still there and valid.
C5_Witness ==
    /\ Emitted(ToastError(FailedToAdd))
    /\ name = <<"M", "i">>
    /\ ~DraftFailsRule
    /\ ~submitDisabled

\* C6: a submit of a draft that passes the three rules while no household
\* is selected calls no service, leaves the loading flag as it was, shows
\* "Please select a household first", invokes no callback and leaves the
\* draft unchanged.
C6_NoHouseholdStopsSubmit ==
    [][(handleSubmit /\ ~DraftFailsRule /\ selectedHousehold = <<>>) =>
        /\ sent' = <<>>
        /\ UNCHANGED <<pending, isLoading, name, quantity, lowThreshold>>
        /\ Emitted(ToastError(SelectHouseholdFirst))'
        /\ ~Emitted(OnSuccess)' /\ ~Emitted(OnCancel)']_vars

\* C6 witness: the notification was shown for a valid draft, no call made.
C6_Witness ==
    /\ Emitted(ToastError(SelectHouseholdFirst))
    /\ ~DraftFailsRule
    /\ selectedHousehold = <<>>
    /\ pending = 0 /\ ~isLoading

\* C7: a submit of a draft that fails one of the three rules marks the three
\* fields touched, displays the message of each failing field and of no
\* other, calls no service and leaves the loading flag as it was.
C7_InvalidSubmitShowsErrors ==
    [][(handleSubmit /\ DraftFailsRule) =>
        /\ touched' = AllTouched
        /\ displayedError("name")' = (IF NameRuleFails THEN NameRequired ELSE "")
        /\ displayedError("quantity")' =
               (IF QuantityRuleFails THEN QuantityMessage ELSE "")
        /\ displayedError("threshold")' =
               (IF ThresholdRuleFails THEN ThresholdMessage ELSE "")
        /\ sent' = <<>>
        /\ UNCHANGED <<pending, isLoading>>]_vars

\* C7 witness: a submit of a white-space name was stopped by validation and
\* shows the name message.
C7_Witness ==
    /\ out = <<PreventDefault>>
    /\ sent = <<>>
    /\ name = <<" ">>
    /\ displayedError("name") = NameRequired
    /\ pending = 0 /\ ~isLoading

\* C8: the loading flag is set only while a call is outstanding, and every
\* step in which a call resolves or rejects clears it, after which the
\* submit button is enabled iff the draft is valid.
C8_LoadingClearedOnSettle ==
    /\ [](isLoading => pending > 0)
    /\ [][(createResolved \/ createRejected) =>
            /\ ~isLoading'
            /\ (~submitDisabled)' = isValid]_vars

\* C8 witness: a call has resolved, the flag is clear and submit is enabled.
C8_Witness ==
    /\ Emitted(OnSuccess)
    /\ ~isLoading
    /\ ~submitDisabled

\* C9: a press of Escape or of the Cancel button invokes onCancel and
\* nothing else, calls no service, and leaves the draft, the touched flags,
\* the error mapping and the loading flag unchanged.
C9_CancelChangesNothing ==
    [][(cancelClick \/ handleKeyDown("Escape")) =>
        /\ out' = <<OnCancel>>
        /\ sent' = <<>>
        /\ UNCHANGED <<name, quantity, lowThreshold, touched, errors, isLoading,
                       pending>>]_vars

\* C9 witness: onCancel was invoked while a submission is in flight.
C9_Witness == out = <<OnCancel>> /\ isLoading /\ pending > 0

\* C10, as claimed: whenever the quantity field is touched, the displayed
\* quantity error is the quantity message if the text is empty or parses to a
\* negative integer, and none otherwise.
C10_TouchedQuantityShowsError ==
    touched.quantity =>
        displayedError("quantity") =
            (IF QuantityRuleFails THEN QuantityMessage ELSE "")


Fields == {"name", "quantity", "threshold"}

\* C11: in every reachable state a field's error message is displayed only
\* when the field's touched flag is true; a text typed into a field never
\* touched shows no message, whatever the text.
C11_ErrorsOnlyWhenTouched ==
    \A f \in Fields : displayedError(f) # "" => touched[f]

\* C11 witness: a negative quantity was typed into the untouched quantity
\* field and shows nothing, while the touched threshold shows its message.
C11_Witness ==
    /\ quantity = <<"-", "1">>
    /\ ~touched.quantity
    /\ displayedError("quantity") = ""
    /\ touched.threshold
    /\ displayedError("threshold") = ThresholdMessage


\* The common items that contain v, letter case ignored, in the list's order.
ContainsIgnoringCase(item, v) ==
    \E i \in 1..(Len(item) - Len(v) + 1) :
        \A j \in 1..Len(v) : LowerChar(item[i + j - 1]) = LowerChar(v[j])
ExpectedSuggestions(v) ==
    SelectSeq(COMMON_ITEMS, LAMBDA item : ContainsIgnoringCase(item, v))

\* C12 (SpecName): a name update to a non-empty v stores v, sets the
\* suggestion list to the common items containing v (case ignored, list
\* order) and shows the panel iff that list is non-empty; an update to the
\* empty text hides the panel.  "Mi" gives ["Milk"], shown; "z" gives no
\* suggestion and a hidden panel.
C12_SuggestionsAreTheFilteredItems ==
    [][\A v \in NameTexts : handleNameChange(v) =>
        /\ name' = v
        /\ v # <<>> => /\ suggestions' = ExpectedSuggestions(v)
                       /\ panelShown' = (Len(ExpectedSuggestions(v)) > 0)
        /\ v = <<>> => ~panelShown'
        /\ v = <<"M", "i">> => /\ suggestions' = << <<"M","i","l","k">> >>
                               /\ panelShown'
        /\ v = <<"z">> => /\ suggestions' = <<>>
                          /\ ~panelShown']_vars

\* C12 witness: "i" was typed, and the four items with an "i" are shown in
\* the list's order.
C12_Witness ==
    /\ name = <<"i">>
    /\ suggestions = << <<"M","i","l","k">>, <<"R","i","c","e">>,
                        <<"C","h","i","c","k","e","n">>, <<"O","n","i","o","n","s">> >>
    /\ panelShown


\* C13, as claimed: a focus of the name field while the name is non-empty
\* sets the suggestion list to the items matching the name and, when that
\* list is non-empty, shows the panel, also when it was hidden before.
C13_FocusShowsSuggestions ==
    [][(nameFocus /\ name # <<>>) =>
        /\ suggestions' = ExpectedSuggestions(name)
        /\ Len(ExpectedSuggestions(name)) > 0 => panelShown']_vars


\* C14 (SpecName): a blur of the name field leaves the panel as it is and
\* only schedules the delayed hide; a click on a suggestion, also one made
\* while a delayed hide is scheduled, sets the name to the suggestion's
\* text and hides the panel, and leaves the scheduled hide alone; the
\* delayed hide, when it runs, hides the panel and changes nothing else.
C14_ClickWinsOverDelayedHide ==
    [][/\ nameBlur =>
            /\ panelShown' = panelShown
            /\ hideTimers' = hideTimers + 1
       /\ \A item \in CommonItems : suggestionClick(item) =>
            /\ name' = item
            /\ ~panelShown'
            /\ hideTimers' = hideTimers
       /\ hideTimerFires =>
            /\ ~panelShown'
            /\ UNCHANGED <<name, quantity, lowThreshold, errors, touched,
                           suggestions, isLoading>>]_vars

\* C14 witness: the name field was left, its delayed hide has not run yet,
\* and the panel still offers Milk to click.
C14_Witness ==
    /\ hideTimers > 0
    /\ touched.name
    /\ panelShown
    /\ ENABLED suggestionClick(<<"M","i","l","k">>)


\* What a threshold update leaves alone: the name and quantity errors and
\* the three touched flags.
ThresholdUpdateFrame ==
    /\ errors'.name = errors.name
    /\ errors'.quantity = errors.quantity
    /\ touched' = touched

\* C15, as claimed: a threshold update stores the text; in a touched field
\* it sets the threshold error when the text is empty or parses to a
\* non-positive integer and clears it otherwise; in an untouched field it
\* leaves the error mapping unchanged; the name and quantity errors and the
\* touched flags are unchanged.
C15_ThresholdErrorIffNonPositive ==
    [][\A v \in ThresholdInputs : thresholdChange(v) =>
        /\ lowThreshold' = v
        /\ touched.threshold =>
              errors'.threshold =
                  (IF v = <<>> \/ Le(parseInt(v), 0) THEN ThresholdMessage ELSE "")
        /\ ~touched.threshold => errors' = errors
        /\ ThresholdUpdateFrame]_vars

\* C15, amended: as above, but in a touched field the error is set when the
\* text is empty or does not parse to a positive integer (it parses to a
\* non-positive one, or to no number at all, as ".5" does), and cleared when
\* it parses to a positive integer ("0" shows the error, "5" and "2" none).
C15_ThresholdErrorUnlessPositive ==
    [][\A v \in ThresholdInputs : thresholdChange(v) =>
        /\ lowThreshold' = v
        /\ touched.threshold =>
              errors'.threshold =
                  (IF v = <<>> \/ parseInt(v).nan \/ parseInt(v).val <= 0
                   THEN ThresholdMessage ELSE "")
        /\ ~touched.threshold => errors' = errors
        /\ ThresholdUpdateFrame]_vars

\* C15 witness: ".5" was typed into the touched threshold field and shows
\* the message, while the quantity keeps an error of its own.
C15_Witness ==
    /\ lowThreshold = <<".", "5">>
    /\ touched.threshold
    /\ errors.threshold = ThresholdMessage
    /\ errors.quantity = QuantityMessage


\* C16 (SpecUI): a press of Escape or of the Cancel button invokes onCancel
\* and leaves the outstanding call and the loading flag as they are; a call
\* that resolves right after onCancel was invoked still shows the success
\* notification and invokes onSuccess.
C16_CancelDoesNotStopTheCall ==
    [][/\ (cancelClick \/ handleKeyDown("Escape")) =>
            /\ Emitted(OnCancel)'
            /\ pending' = pending
            /\ isLoading' = isLoading
       /\ (Emitted(OnCancel) /\ createResolved) =>
            out' = <<ToastSuccess(ItemAdded), OnSuccess>>]_vars

\* C16 witness: onCancel was just invoked with one call outstanding, and
\* that call can still resolve.
C16_Witness ==
    /\ out = <<OnCancel>>
    /\ pending = 1
    /\ ENABLED createResolved


\* C17, as claimed: on every draft validate returns true iff isValid is
\* truthy.
C17_ValidateAgreesWithIsValid == validate <=> isValid

\* C18, as claimed (SpecBlurHidden, where a shown panel was opened after
\* every blur whose delayed hide is still scheduled): a delayed hide never
\* hides a panel opened by a name update made after the blur.
C18_DelayedHideSparesLaterPanel ==
    [][hideTimerFires => (panelShown => panelShown')]_vars

\* C19 (SpecUI): the loading flag is true exactly when a creation-service
\* call is outstanding.
C19_LoadingIffCallOutstanding == isLoading <=> pending > 0

\* C19 witness: the call was just made and the flag is set.
C19_Witness ==
    /\ sent # <<>>
    /\ isLoading
    /\ pending = 1

====
